---- MODULE Spec2Model ----
(***************************************************************************)
(* A model of the HealthBench runner's evaluation engine:                  *)
(*   - runEvaluation (runner.ts): the sequential loop over examples, with  *)
(*     one model call per example, one grader call per rubric item, the   *)
(*     example-level error policy and the snapshots pushed to updateState; *)
(*   - gradeRubricItem / gradeExample (grader.ts): the chunked grading     *)
(*     scheduler, with grader calls of one chunk completing in any order;  *)
(*   - the scorer's pure functions used by the loop.                       *)
(* Spec is the run of runEvaluation, SpecGrade a call of gradeExample.     *)
(*                                                                         *)
(* Left out of RunState: startTime, lastCompletionElapsed (wall clock),    *)
(* currentActivity, currentPrompt, currentQuestion (display text).         *)
(***************************************************************************)
EXTENDS Integers, Sequences, FiniteSets, TLC

VARIABLES
    \* ---- runEvaluation
    pc,                 \* position of runEvaluation
    examples,           \* const examples = await loadDataset(...)
    i,                  \* index of the outer loop (0-based, as in the code)
    j,                  \* index of the rubric loop (0-based)
    call,               \* the awaited promise: none / pending / resolved / rejected
    modelResult,        \* const modelResult (content, usage)
    rubricResults,      \* const rubricResults: RubricResult[]
    modelTokens, graderTokens, modelTimeMs, graderTimeMs,
    errorCount, lastError,
    completedExamples,  \* const completedExamples: ExampleResult[]
    themeScores,        \* const themeScores: Map<string, ThemeScore> (the objects)
    state,              \* the RunState held by the state sink (latest snapshot)
    failedExamples,     \* history: indices whose failure reached the outer catch
    modelCalls,         \* history: number of model calls issued
    graderFailures,     \* history: grader calls that failed or whose reply did not parse
    rejection,          \* the error runEvaluation's promise is rejected with, if any
    graderCalls,        \* history: <<i, j>> -> number of grader calls issued for the pair
    outstanding,        \* history: the calls issued and not yet returned or failed
    graderOutcomes,     \* history: what the grader call of each item of the example ended with
    \* ---- gradeExample
    gpc,                \* position of gradeExample
    rubrics,            \* parameter rubrics
    concurrency,        \* parameter concurrency
    gi,                 \* loop index i of gradeExample
    batch,              \* const batch = rubrics.slice(i, i + concurrency)
    inflight,           \* positions of the batch whose grader call is outstanding
    values,             \* the result array of Promise.all: position -> RubricResult
    results,            \* const results: RubricResult[]
    issued,             \* history: rubric indices for which a grader call was issued
    outcomes,           \* history: rubric index -> how its grader call ended
    \* ---- calls of the scorer's functions
    fn,                 \* the function called
    arg,                \* its argument list
    ret,                \* what the call returned
    themeMap,           \* the Map<string, ThemeScore> handed to updateThemeScores
    passed,             \* history: the (theme, score) pairs of the calls so far
    \* ---- App (the presentation layer)
    resultsWritten,     \* const resultsWritten = useRef(false)
    resultsFile,        \* the results file in args.output, once written
    writeResultsCalls   \* history: the number of calls of writeResults

runVars == <<pc, examples, i, j, call, modelResult, rubricResults, modelTokens,
             graderTokens, modelTimeMs, graderTimeMs, errorCount, lastError,
             completedExamples, themeScores, state, failedExamples, modelCalls,
             graderFailures, rejection, graderCalls, outstanding, graderOutcomes>>
gradeVars == <<gpc, rubrics, concurrency, gi, batch, inflight, values, results, issued,
               outcomes>>
scorerVars == <<fn, arg, ret, themeMap, passed>>
appVars == <<resultsWritten, resultsFile, writeResultsCalls>>
vars == <<runVars, gradeVars, scorerVars, appVars>>

----------------------------------------------------------------------------
(* Bounds of the model *)

\* number of examples in the dataset file
PoolSize == 5
\* largest --examples limit tried (a limit below the file's length samples at random)
MaxLimit == 2
\* wall-clock duration of a model call and of a grader call
ModelCallMs == 3
GraderCallMs == 2
\* gradeExample: longest rubric list and largest explicit concurrency limit
MaxGradeRubrics == 6
MaxConcurrency == 3
\* calls of the scorer: longest lists and longest sequence of theme updates
MaxRubricResults == 3
MaxExampleResults == 3
MaxThemeCalls == 3
\* grader replies handed to the parser: most members of the reply's object
MaxMembers == 2

----------------------------------------------------------------------------
(* JavaScript values: a value is written as its JSON text *)

Null == "null"
Undefined == "undefined"

\* the truthiness test of filter((r) => r.criteria_met)
Truthy(v) == v \notin {"false", "null", "undefined", "0", "\"\""}

\* String(e) for an Error object
ErrorToString(e) == e.name \o ": " \o e.message

\* The failures of chatWithUsage
ApiErrors ==
    { [name |-> "Error", message |-> "Empty response from API"],
      [name |-> "Error", message |-> "Unknown API error"] }

\* the failure tried for a grader call
GraderErrors == { e \in ApiErrors : e.message = "Empty response from API" }

\* token usage reported by one successful call
CallUsage == [promptTokens |-> 2, completionTokens |-> 1, totalTokens |-> 3]

createEmptyTokenUsage == [promptTokens |-> 0, completionTokens |-> 0, totalTokens |-> 0]

addTokenUsage(a, b) ==
    [promptTokens |-> a.promptTokens + b.promptTokens,
     completionTokens |-> a.completionTokens + b.completionTokens,
     totalTokens |-> a.totalTokens + b.totalTokens]

----------------------------------------------------------------------------
(* Exact fractions for scores *)

RECURSIVE Gcd(_, _)
Gcd(a, b) == IF b = 0 THEN a ELSE Gcd(b, a % b)

Abs(x) == IF x < 0 THEN -x ELSE x

\* the fraction n/d, d > 0, in lowest terms
Frac(n, d) ==
    LET g == Gcd(Abs(n), d) IN
    IF n = 0 THEN [n |-> 0, d |-> 1] ELSE [n |-> n \div g, d |-> d \div g]

\* the least common denominator keeps the intermediate products small
Lcm(a, b) == (a \div Gcd(a, b)) * b
FracAdd(a, b) ==
    LET l == Lcm(a.d, b.d) IN Frac(a.n * (l \div a.d) + b.n * (l \div b.d), l)
FracDivInt(a, k) == Frac(a.n, a.d * k)
FracLeq(a, b) == a.n * b.d <= b.n * a.d
FracSub(a, b) ==
    LET l == Lcm(a.d, b.d) IN Frac(a.n * (l \div a.d) - b.n * (l \div b.d), l)
FracMul(a, b) == Frac(a.n * b.n, a.d * b.d)
FracZero == [n |-> 0, d |-> 1]
FracOne == [n |-> 1, d |-> 1]

----------------------------------------------------------------------------
(* The dataset file: HealthBenchExample records in file order *)

Rubric(c, p) == [criterion |-> c, points |-> p]

\* an example tag is modelled as <<prefix, rest>>, e.g. "theme:" "hedging"
ThemeTag(name) == <<"theme:", name>>
OtherTag == <<"physician_agreed_category:", "enough-info">>

DatasetLine(k) ==
    CASE k = 1 -> [prompt_id |-> "p1",
                   rubrics |-> <<Rubric("c1", 5), Rubric("c2", -2)>>,
                   example_tags |-> <<OtherTag, ThemeTag("hedging")>>]
      [] k = 2 -> [prompt_id |-> "p2",
                   rubrics |-> <<Rubric("c3", 3)>>,
                   example_tags |-> <<OtherTag>>]
      [] k = 3 -> [prompt_id |-> "p3",
                   rubrics |-> <<>>,
                   example_tags |-> <<ThemeTag("hedging"), ThemeTag("communication")>>]
      [] k = 4 -> [prompt_id |-> "p4",
                   rubrics |-> <<Rubric("c4", -4)>>,
                   example_tags |-> <<ThemeTag("communication")>>]
      [] k = 5 -> [prompt_id |-> "p5",
                   rubrics |-> <<Rubric("c5", 2)>>,
                   example_tags |-> <<ThemeTag("")>>]
      [] OTHER -> [prompt_id |-> "p6",
                   rubrics |-> <<Rubric("c6", 1)>>,
                   example_tags |-> <<>>]

allExamples == [k \in 1..PoolSize |-> DatasetLine(k)]

\* shuffle(allExamples).slice(0, limit): every arrangement of limit distinct examples
Samples(limit) ==
    { [k \in 1..limit |-> allExamples[f[k]]] :
        f \in { g \in [1..limit -> 1..PoolSize] :
                  \A a, b \in 1..limit : a # b => g[a] # g[b] } }

\* loadDataset(dataset, limit): limit = 0 stands for no limit given
loadDataset(limit) ==
    IF limit # 0 /\ limit < Len(allExamples) THEN Samples(limit) ELSE {allExamples}

----------------------------------------------------------------------------
(* scorer.ts *)

RECURSIVE SumPoints(_)
SumPoints(rs) == IF rs = <<>> THEN 0 ELSE rs[1].points + SumPoints(Tail(rs))

\* fault: items with negative points are counted too
TotalPoints_AllItems(rubricResults_) == SumPoints(rubricResults_)

\* filter((r) => r.points > 0).reduce(sum + r.points, 0)
TotalPoints(rubricResults_) ==
    SumPoints(SelectSeq(rubricResults_, LAMBDA r : r.points > 0))

\* fault: only met items with positive points are counted
AchievedPoints_PositiveOnly(rubricResults_) ==
    SumPoints(SelectSeq(rubricResults_, LAMBDA r : Truthy(r.criteria_met) /\ r.points > 0))

\* filter((r) => r.criteria_met).reduce(sum + r.points, 0)
AchievedPoints(rubricResults_) ==
    SumPoints(SelectSeq(rubricResults_, LAMBDA r : Truthy(r.criteria_met)))

\* fault: without points to reach, the score is the points achieved
ScoreOf_NoGuard(achievedPoints, totalPoints) ==
    IF totalPoints > 0 THEN Frac(achievedPoints, totalPoints) ELSE Frac(achievedPoints, 1)

\* totalPoints > 0 ? achievedPoints / totalPoints : 0
ScoreOf(achievedPoints, totalPoints) ==
    IF totalPoints > 0 THEN Frac(achievedPoints, totalPoints) ELSE FracZero

calculateExampleScore(rubricResults_) ==
    LET totalPoints == TotalPoints(rubricResults_)
        achievedPoints == AchievedPoints(rubricResults_)
    IN  [achievedPoints |-> achievedPoints,
         totalPoints |-> totalPoints,
         score |-> ScoreOf(achievedPoints, totalPoints)]

\* Math.sqrt(x), kept exact as the number under the root
Sqrt(x) == [sqrt |-> x]

RECURSIVE SumScores(_)
SumScores(scores) ==
    IF scores = <<>> THEN FracZero ELSE FracAdd(scores[1], SumScores(Tail(scores)))

\* fault: the mean is returned as it is
Clip_None(mean) == mean

\* Math.max(0, Math.min(1, mean))
Clip(mean) ==
    LET upper == IF FracLeq(FracOne, mean) THEN FracOne ELSE mean
    IN  IF FracLeq(upper, FracZero) THEN FracZero ELSE upper

calculateOverallScore(exampleResults) ==
    IF Len(exampleResults) = 0 THEN [overallScore |-> FracZero, stdDev |-> Sqrt(FracZero)]
    ELSE LET scores == [k \in 1..Len(exampleResults) |-> exampleResults[k].score]
             mean == FracDivInt(SumScores(scores), Len(scores))
             squaredDiffs == [k \in 1..Len(scores) |->
                                 FracMul(FracSub(scores[k], mean), FracSub(scores[k], mean))]
             variance == FracDivInt(SumScores(squaredDiffs), Len(scores))
         IN  [overallScore |-> Clip(mean), stdDev |-> Sqrt(variance)]

\* example.example_tags.find((t) => t.startsWith('theme:')), then replace('theme:', '')
getTheme(example) ==
    LET tags == example.example_tags
        hits == { k \in 1..Len(tags) : tags[k][1] = "theme:" }
    IN  IF hits = {} THEN Null
        ELSE LET first == CHOOSE k \in hits : \A m \in hits : k <= m
             IN  tags[first][2]

\* fault: the average of an existing entry is not recomputed
updateThemeScores_StaleAvg(themeScores_, theme, score) ==
    IF theme = Null \/ theme = "" THEN themeScores_
    ELSE IF theme \in DOMAIN themeScores_
         THEN LET existing == themeScores_[theme]
              IN  [themeScores_ EXCEPT ![theme] =
                       [theme |-> theme, examples |-> existing.examples + 1,
                        totalScore |-> FracAdd(existing.totalScore, score),
                        avgScore |-> existing.avgScore]]
         ELSE [k \in DOMAIN themeScores_ \cup {theme} |->
                  IF k = theme
                  THEN [theme |-> theme, examples |-> 1, totalScore |-> score, avgScore |-> score]
                  ELSE themeScores_[k]]

\* updateThemeScores mutates the ThemeScore object of the theme in place, or sets a new one
updateThemeScores(themeScores_, theme, score) ==
    IF theme = Null \/ theme = "" THEN themeScores_
    ELSE IF theme \in DOMAIN themeScores_
         THEN LET existing == themeScores_[theme]
                  n == existing.examples + 1
                  t == FracAdd(existing.totalScore, score)
              IN  [themeScores_ EXCEPT ![theme] =
                       [theme |-> theme, examples |-> n, totalScore |-> t,
                        avgScore |-> FracDivInt(t, n)]]
         ELSE [k \in DOMAIN themeScores_ \cup {theme} |->
                  IF k = theme
                  THEN [theme |-> theme, examples |-> 1, totalScore |-> score, avgScore |-> score]
                  ELSE themeScores_[k]]

EmptyMap == [k \in {} |-> FracZero]

----------------------------------------------------------------------------
(* The grader's reply and its parsing (grader.ts 89-109, runner.ts 365-383). *)
(* A reply is a sequence of tokens: "fence" (three backquotes), "json" (the   *)
(* label of a fence),                                                        *)
(* "ws" white space, "{" and "}", a member of an object, a JSON literal, or  *)
(* "prose" (any other text).                                                 *)

CriteriaMetMembers == {"cm:true", "cm:false", "cm:\"yes\""}
ExplanationMembers == {"ex:\"x\""}
Members == CriteriaMetMembers \cup ExplanationMembers
Literals == {"true", "false", "null", "42", "\"text\""}

MemberValue(m) ==
    CASE m = "cm:true" -> "true"
      [] m = "cm:false" -> "false"
      [] m = "cm:\"yes\"" -> "\"yes\""
      [] OTHER -> "\"x\""

Positions(s, tok) == { k \in 1..Len(s) : s[k] = tok }
Min(S) == CHOOSE x \in S : \A y \in S : x <= y
Max(S) == CHOOSE x \in S : \A y \in S : x >= y

RECURSIVE TrimLeft(_)
TrimLeft(s) == IF s # <<>> /\ s[1] = "ws" THEN TrimLeft(Tail(s)) ELSE s
RECURSIVE TrimRight(_)
TrimRight(s) ==
    IF s # <<>> /\ s[Len(s)] = "ws" THEN TrimRight(SubSeq(s, 1, Len(s) - 1)) ELSE s
Trim(s) == TrimRight(TrimLeft(s))

\* response.match of the fenced-block pattern: the leftmost fence that has a later
\* fence, an optional json label, white space, then group 1 lazily up to the next fence
FenceMatch(s) ==
    LET fences == Positions(s, "fence")
        opens == { a \in fences : \E b \in fences : b > a }
    IN  IF opens = {} THEN [matched |-> FALSE, group |-> <<>>]
        ELSE LET a == Min(opens)
                 b == Min({ x \in fences : x > a })
                 body == SubSeq(s, a + 1, b - 1)
                 unlabelled == IF body # <<>> /\ body[1] = "json" THEN Tail(body) ELSE body
             IN  [matched |-> TRUE, group |-> TrimLeft(unlabelled)]

\* jsonStr.match(/\{[\s\S]*\}/): greedy, from the first "{" to the last "}"
ObjectMatch(s) ==
    LET opens == Positions(s, "{")
        closes == Positions(s, "}")
    IN  IF opens = {} \/ closes = {} \/ Max(closes) < Min(opens)
        THEN [matched |-> FALSE, text |-> <<>>]
        ELSE [matched |-> TRUE, text |-> SubSeq(s, Min(opens), Max(closes))]

\* JSON.parse: an object of members, or a literal; anything else is a SyntaxError
JsonParse(s) ==
    LET t == SelectSeq(s, LAMBDA x : x # "ws") IN
    IF Len(t) >= 2 /\ t[1] = "{" /\ t[Len(t)] = "}"
       /\ \A k \in 2..(Len(t) - 1) : t[k] \in Members
    THEN [ok |-> TRUE, kind |-> "object", members |-> SubSeq(t, 2, Len(t) - 1)]
    ELSE IF Len(t) = 1 /\ t[1] \in Literals
    THEN [ok |-> TRUE, kind |-> IF t[1] = "null" THEN "null" ELSE "primitive", members |-> <<>>]
    ELSE [ok |-> FALSE, kind |-> "SyntaxError", members |-> <<>>]

\* parsed.<key>: the last member with that key wins; a missing key reads undefined
Property(members, keys) ==
    LET hits == { k \in 1..Len(members) : members[k] \in keys } IN
    IF hits = {} THEN Undefined ELSE MemberValue(members[Max(hits)])

\* The try block after the grader call returned: extraction, JSON.parse and the
\* two property reads. thrown = TRUE is the exception the catch block receives.
ParseGraderReply(response) ==
    LET jsonMatch == FenceMatch(response)
        jsonStr1 == IF jsonMatch.matched THEN Trim(jsonMatch.group) ELSE response
        objectMatch == ObjectMatch(jsonStr1)
        jsonStr == IF objectMatch.matched THEN objectMatch.text ELSE jsonStr1
        parsed == JsonParse(jsonStr)
    IN  IF ~parsed.ok
        THEN [thrown |-> TRUE,
              error |-> [name |-> "SyntaxError", message |-> "JSON Parse error"],
              criteria_met |-> Undefined, explanation |-> Undefined]
        ELSE IF parsed.kind = "null"
        THEN [thrown |-> TRUE,
              error |-> [name |-> "TypeError", message |-> "null is not an object"],
              criteria_met |-> Undefined, explanation |-> Undefined]
        ELSE [thrown |-> FALSE,
              error |-> [name |-> "", message |-> ""],
              criteria_met |-> Property(parsed.members, CriteriaMetMembers),
              explanation |-> Property(parsed.members, ExplanationMembers)]

\* the RubricResult of the try block
GradedResult(rubric, parsed) ==
    [criterion |-> rubric.criterion, points |-> rubric.points,
     criteria_met |-> parsed.criteria_met, explanation |-> parsed.explanation]

\* fault: the catch block's default is met
DefaultResult_Met(rubric, e) ==
    [criterion |-> rubric.criterion, points |-> rubric.points,
     criteria_met |-> "true", explanation |-> "Grading error: " \o ErrorToString(e)]

\* the RubricResult of the catch block: "Default to not met on error"
DefaultResult(rubric, e) ==
    [criterion |-> rubric.criterion, points |-> rubric.points,
     criteria_met |-> "false", explanation |-> "Grading error: " \o ErrorToString(e)]

\* grader replies tried in the run
ReplyMet == <<"fence", "json", "ws", "{", "ex:\"x\"", "cm:true", "}", "ws", "fence">>
ReplyNotMet == <<"{", "ex:\"x\"", "cm:false", "}">>
ReplyProse == <<"prose">>
GraderReplies == {ReplyMet, ReplyNotMet, ReplyProse}

\* The replies handed to the parser on its own: a JSON text (an object of up to
\* MaxMembers members, a literal or none), bare or in a fenced block with or
\* without the json label, after nothing or prose, and followed by nothing,
\* white space, prose, or prose that contains a closing brace.
ReplyObjects ==
    { <<"{">> \o ms \o <<"}">> : ms \in UNION { [1..n -> Members] : n \in 0..MaxMembers } }
ReplyTexts == ReplyObjects \cup { <<l>> : l \in Literals } \cup {<<"prose">>, <<>>}
ReplyBlocks ==
    ReplyTexts
    \cup { <<"fence", "json", "ws">> \o t \o <<"ws", "fence">> : t \in ReplyTexts }
    \cup { <<"fence", "ws">> \o t \o <<"ws", "fence">> : t \in ReplyTexts }
ReplyPrefixes == {<<>>, <<"prose", "ws">>}
ReplySuffixes == {<<>>, <<"ws">>, <<"ws", "prose">>, <<"ws", "prose", "}">>}
ParseInputs ==
    { pre \o b \o suf : pre \in ReplyPrefixes, b \in ReplyBlocks, suf \in ReplySuffixes }

\* ParseGraderReply on the replies of the run and of the parser's own calls,
\* computed once
ParsedReply == [r \in GraderReplies \cup ParseInputs |-> ParseGraderReply(r)]

\* try { parse; result } catch (e) { default result }
ResultOfReply(rubric, response) ==
    IF ParsedReply[response].thrown
    THEN DefaultResult(rubric, ParsedReply[response].error)
    ELSE GradedResult(rubric, ParsedReply[response])


----------------------------------------------------------------------------
(* runner.ts: runEvaluation *)

NoError == [name |-> "", message |-> ""]
NoCall == [status |-> "none", kind |-> "", value |-> <<>>, error |-> NoError]
Pending(kind) == [status |-> "pending", kind |-> kind, value |-> <<>>, error |-> NoError]
Resolved(kind, v) == [status |-> "resolved", kind |-> kind, value |-> v, error |-> NoError]
Rejected(kind, e) == [status |-> "rejected", kind |-> kind, value |-> <<>>, error |-> e]

LoadError == [name |-> "Error", message |-> "Failed to download dataset: Not Found"]

createInitialState ==
    [phase |-> "loading",
     currentExample |-> 0, totalExamples |-> 0,
     currentRubric |-> 0, totalRubrics |-> 0,
     completedExamples |-> <<>>,
     modelTokens |-> createEmptyTokenUsage, graderTokens |-> createEmptyTokenUsage,
     modelTimeMs |-> 0, graderTimeMs |-> 0,
     themeScores |-> {},
     currentAnswer |-> Null,
     lastError |-> Null, errorCount |-> 0]

\* The themeScores field of a snapshot is a Map whose values are the ThemeScore
\* objects of the loop's own map: the field holds the keys, the objects are read
\* through the variable themeScores.
ThemeScoresOf(snapshot) == [t \in snapshot.themeScores |-> themeScores[t]]

\* the updaters handed to updateState, in the order of the code
LoadingUpdate(prev) == [prev EXCEPT !.phase = "loading"]

RunningUpdate(prev, exs) ==
    [prev EXCEPT !.phase = "running", !.totalExamples = Len(exs)]

\* fault: the update starts from the initial state's phase
ExampleStartUpdate_ResetsPhase(prev, i_, example) ==
    [prev EXCEPT !.phase = "loading",
                 !.currentExample = i_ + 1, !.currentRubric = 0,
                 !.totalRubrics = Len(example.rubrics), !.currentAnswer = Null]

ExampleStartUpdate(prev, i_, example) ==
    [prev EXCEPT !.currentExample = i_ + 1, !.currentRubric = 0,
                 !.totalRubrics = Len(example.rubrics), !.currentAnswer = Null]

AnswerUpdate(prev, content, modelTimeMs_) ==
    [prev EXCEPT !.currentAnswer = content, !.modelTimeMs = modelTimeMs_]

RubricStartUpdate(prev, j_, modelTokens_, graderTokens_, modelTimeMs_, graderTimeMs_) ==
    [prev EXCEPT !.currentRubric = j_ + 1,
                 !.modelTokens = modelTokens_, !.graderTokens = graderTokens_,
                 !.modelTimeMs = modelTimeMs_, !.graderTimeMs = graderTimeMs_]

CompletedUpdate(prev, completed, modelTokens_, graderTokens_, themeScores_) ==
    [prev EXCEPT !.completedExamples = completed,
                 !.modelTokens = modelTokens_, !.graderTokens = graderTokens_,
                 !.themeScores = DOMAIN themeScores_]

ErrorUpdate(prev, completed, lastError_, errorCount_) ==
    [prev EXCEPT !.completedExamples = completed,
                 !.lastError = lastError_, !.errorCount = errorCount_]

\* fault: the final state starts from a clean error record
FinalState_DropsErrors(exs, completed, modelTokens_, graderTokens_, modelTimeMs_, graderTimeMs_, themeScores_, lastError_, errorCount_) ==
    [phase |-> "complete",
     currentExample |-> Len(exs), totalExamples |-> Len(exs),
     currentRubric |-> 0, totalRubrics |-> 0,
     completedExamples |-> completed,
     modelTokens |-> modelTokens_, graderTokens |-> graderTokens_,
     modelTimeMs |-> modelTimeMs_, graderTimeMs |-> graderTimeMs_,
     themeScores |-> DOMAIN themeScores_,
     currentAnswer |-> Null,
     lastError |-> Null, errorCount |-> 0]

FinalState(exs, completed, modelTokens_, graderTokens_, modelTimeMs_, graderTimeMs_, themeScores_, lastError_, errorCount_) ==
    [phase |-> "complete",
     currentExample |-> Len(exs), totalExamples |-> Len(exs),
     currentRubric |-> 0, totalRubrics |-> 0,
     completedExamples |-> completed,
     modelTokens |-> modelTokens_, graderTokens |-> graderTokens_,
     modelTimeMs |-> modelTimeMs_, graderTimeMs |-> graderTimeMs_,
     themeScores |-> DOMAIN themeScores_,
     currentAnswer |-> Null,
     lastError |-> lastError_, errorCount |-> errorCount_]

\* fault: unshift in place of push
Push_Front(arr, x) == <<x>> \o arr

\* completedExamples.push(x)
Push(arr, x) == Append(arr, x)

\* the ExampleResult of a scored example
ScoredResult(example, content, rubricResults_) ==
    LET sc == calculateExampleScore(rubricResults_) IN
    [prompt_id |-> example.prompt_id, model_response |-> content,
     rubric_results |-> rubricResults_,
     achieved_points |-> sc.achievedPoints, total_points |-> sc.totalPoints,
     score |-> sc.score]

\* fault: the placeholder is given no points to reach
FailedResult_ZeroTotal(example) ==
    [prompt_id |-> example.prompt_id, model_response |-> "",
     rubric_results |-> <<>>,
     achieved_points |-> 0, total_points |-> 0, score |-> FracZero]

\* the ExampleResult recorded for a failed example
FailedResult(example) ==
    [prompt_id |-> example.prompt_id, model_response |-> "",
     rubric_results |-> <<>>,
     achieved_points |-> 0, total_points |-> 1, score |-> FracZero]

\* fault: the comparison never holds, so no failure is fatal
IsFirstExample_Never(i_) == i_ < 0

\* fault: every failure is rethrown
IsFirstExample_Always(i_) == TRUE

\* if (i === 0) throw e
IsFirstExample(i_) == i_ = 0

Example == examples[i + 1]

\* the model call of example i_ (j_ = 0), or the grader call of its rubric item j_
CallOf(kind, i_, j_) == [kind |-> kind, i |-> i_, j |-> j_]

\* one more call counted for the pair
CountCall(calls, pair) ==
    [k \in DOMAIN calls \cup {pair} |->
        IF k = pair THEN (IF pair \in DOMAIN calls THEN calls[pair] + 1 ELSE 1)
        ELSE calls[k]]

unchangedGrade == UNCHANGED gradeVars

unchangedScorer == UNCHANGED scorerVars

unchangedApp == UNCHANGED appVars

\* updateState(loading); the call of loadDataset
BeginRun ==
    /\ pc = "start"
    /\ state' = LoadingUpdate(state)
    /\ call' = Pending("load")
    /\ pc' = "await_load"
    /\ UNCHANGED <<examples, i, j, modelResult, rubricResults, modelTokens, graderTokens,
                   modelTimeMs, graderTimeMs, errorCount, lastError, completedExamples,
                   themeScores, failedExamples, modelCalls, graderFailures, rejection>>
    /\ UNCHANGED <<graderCalls, outstanding, graderOutcomes>>
    /\ unchangedGrade /\ unchangedScorer /\ unchangedApp

\* loadDataset resolves with the examples, or rejects
LoadSettles ==
    /\ pc = "await_load" /\ call.status = "pending"
    /\ \/ \E limit \in 0..MaxLimit : \E exs \in loadDataset(limit) :
              call' = Resolved("load", exs)
       \/ call' = Rejected("load", LoadError)
    /\ UNCHANGED <<pc, examples, i, j, modelResult, rubricResults, modelTokens,
                   graderTokens, modelTimeMs, graderTimeMs, errorCount, lastError,
                   completedExamples, themeScores, state, failedExamples, modelCalls,
                   graderFailures, rejection>>
    /\ UNCHANGED <<graderCalls, outstanding, graderOutcomes>>
    /\ unchangedGrade /\ unchangedScorer /\ unchangedApp

\* lines 280-294: updateState(running) and the loop's accumulators
DatasetLoaded ==
    /\ pc = "await_load" /\ call.status = "resolved"
    /\ examples' = call.value
    /\ state' = RunningUpdate(state, call.value)
    /\ modelTokens' = createEmptyTokenUsage
    /\ graderTokens' = createEmptyTokenUsage
    /\ modelTimeMs' = 0 /\ graderTimeMs' = 0
    /\ errorCount' = 0 /\ lastError' = Null
    /\ completedExamples' = <<>>
    /\ themeScores' = EmptyMap
    /\ i' = 0
    /\ call' = NoCall
    /\ pc' = "loop_i"
    /\ UNCHANGED <<j, modelResult, rubricResults, failedExamples, modelCalls,
                   graderFailures, rejection>>
    /\ UNCHANGED <<graderCalls, outstanding, graderOutcomes>>
    /\ unchangedGrade /\ unchangedScorer /\ unchangedApp

\* the rejection of loadDataset is not caught: runEvaluation rejects with it
DatasetFailed ==
    /\ pc = "await_load" /\ call.status = "rejected"
    /\ rejection' = call.error
    /\ call' = NoCall
    /\ pc' = "thrown"
    /\ UNCHANGED <<examples, i, j, modelResult, rubricResults, modelTokens, graderTokens,
                   modelTimeMs, graderTimeMs, errorCount, lastError, completedExamples,
                   themeScores, state, failedExamples, modelCalls, graderFailures>>
    /\ UNCHANGED <<graderCalls, outstanding, graderOutcomes>>
    /\ unchangedGrade /\ unchangedScorer /\ unchangedApp

\* fault: the model call is not awaited and the loop goes on to the next example
ExampleBegin_NoAwait ==
    /\ pc = "loop_i" /\ i < Len(examples)
    /\ state' = ExampleStartUpdate(state, i, Example)
    /\ modelCalls' = modelCalls + 1
    /\ i' = i + 1
    /\ UNCHANGED <<pc, call, examples, j, modelResult, rubricResults, modelTokens,
                   graderTokens, modelTimeMs, graderTimeMs, errorCount, lastError,
                   completedExamples, themeScores, failedExamples, graderFailures,
                   rejection>>
    /\ outstanding' = outstanding \cup {CallOf("model", i, 0)}
    /\ UNCHANGED <<graderCalls, graderOutcomes>>
    /\ unchangedGrade /\ unchangedScorer /\ unchangedApp

\* loop head with i < examples.length: lines 298-327, up to the await of the model call
ExampleBegin ==
    /\ pc = "loop_i" /\ i < Len(examples)
    /\ state' = ExampleStartUpdate(state, i, Example)
    /\ call' = Pending("model")
    /\ modelCalls' = modelCalls + 1
    /\ pc' = "await_model"
    /\ UNCHANGED <<examples, i, j, modelResult, rubricResults, modelTokens, graderTokens,
                   modelTimeMs, graderTimeMs, errorCount, lastError, completedExamples,
                   themeScores, failedExamples, graderFailures, rejection>>
    /\ outstanding' = outstanding \cup {CallOf("model", i, 0)}
    /\ UNCHANGED <<graderCalls, graderOutcomes>>
    /\ unchangedGrade /\ unchangedScorer /\ unchangedApp

\* chatWithUsage for the model resolves with content and usage, or rejects
ModelSettles ==
    /\ pc = "await_model" /\ call.status = "pending"
    /\ \/ call' = Resolved("model", [content |-> "answer", usage |-> CallUsage])
       \/ \E e \in ApiErrors : call' = Rejected("model", e)
    /\ UNCHANGED <<pc, examples, i, j, modelResult, rubricResults, modelTokens,
                   graderTokens, modelTimeMs, graderTimeMs, errorCount, lastError,
                   completedExamples, themeScores, state, failedExamples, modelCalls,
                   graderFailures, rejection>>
    /\ outstanding' = outstanding \ {CallOf("model", i, 0)}
    /\ UNCHANGED <<graderCalls, graderOutcomes>>
    /\ unchangedGrade /\ unchangedScorer /\ unchangedApp

\* lines 328-339: the model answered
ModelResponded ==
    /\ pc = "await_model" /\ call.status = "resolved"
    /\ modelTimeMs' = modelTimeMs + ModelCallMs
    /\ modelTokens' = addTokenUsage(modelTokens, call.value.usage)
    /\ modelResult' = call.value
    /\ state' = AnswerUpdate(state, call.value.content, modelTimeMs')
    /\ rubricResults' = <<>>
    /\ j' = 0
    /\ call' = NoCall
    /\ pc' = "loop_j"
    /\ UNCHANGED <<examples, i, graderTokens, graderTimeMs, errorCount, lastError,
                   completedExamples, themeScores, failedExamples, modelCalls,
                   graderFailures, rejection>>
    /\ UNCHANGED <<graderCalls, outstanding>>
    /\ graderOutcomes' = <<>>
    /\ unchangedGrade /\ unchangedScorer /\ unchangedApp

\* lines 421-450: the catch block of the example
CatchExample ==
    /\ pc = "await_model" /\ call.status = "rejected"
    /\ errorCount' = errorCount + 1
    /\ lastError' = call.error.message
    /\ failedExamples' = failedExamples \cup {i}
    /\ call' = NoCall
    /\ IF IsFirstExample(i)
       THEN /\ rejection' = call.error
            /\ pc' = "thrown"
            /\ UNCHANGED <<completedExamples, state, i>>
       ELSE /\ completedExamples' = Push(completedExamples, FailedResult(Example))
            /\ state' = ErrorUpdate(state, completedExamples', lastError', errorCount')
            /\ i' = i + 1
            /\ pc' = "loop_i"
            /\ UNCHANGED rejection
    /\ UNCHANGED <<examples, j, modelResult, rubricResults, modelTokens, graderTokens,
                   modelTimeMs, graderTimeMs, themeScores, modelCalls, graderFailures>>
    /\ UNCHANGED <<graderCalls, outstanding, graderOutcomes>>
    /\ unchangedGrade /\ unchangedScorer /\ unchangedApp

\* rubric loop head with j < rubrics.length: lines 342-360, up to the await
RubricBegin ==
    /\ pc = "loop_j" /\ j < Len(Example.rubrics)
    /\ state' = RubricStartUpdate(state, j, modelTokens, graderTokens, modelTimeMs,
                                  graderTimeMs)
    /\ call' = Pending("grader")
    /\ pc' = "await_grader"
    /\ UNCHANGED <<examples, i, j, modelResult, rubricResults, modelTokens, graderTokens,
                   modelTimeMs, graderTimeMs, errorCount, lastError, completedExamples,
                   themeScores, failedExamples, modelCalls, graderFailures, rejection>>
    /\ outstanding' = outstanding \cup {CallOf("grader", i, j)}
    /\ graderCalls' = CountCall(graderCalls, <<i, j>>)
    /\ UNCHANGED graderOutcomes
    /\ unchangedGrade /\ unchangedScorer /\ unchangedApp

\* chatWithUsage for the grader resolves with a reply, or rejects
GraderSettles ==
    /\ pc = "await_grader" /\ call.status = "pending"
    /\ \/ \E reply \in GraderReplies :
              call' = Resolved("grader", [content |-> reply, usage |-> CallUsage])
       \/ \E e \in GraderErrors : call' = Rejected("grader", e)
    /\ UNCHANGED <<pc, examples, i, j, modelResult, rubricResults, modelTokens,
                   graderTokens, modelTimeMs, graderTimeMs, errorCount, lastError,
                   completedExamples, themeScores, state, failedExamples, modelCalls,
                   graderFailures, rejection>>
    /\ outstanding' = outstanding \ {CallOf("grader", i, j)}
    /\ UNCHANGED <<graderCalls, graderOutcomes>>
    /\ unchangedGrade /\ unchangedScorer /\ unchangedApp

\* lines 361-392: the grader answered; the reply is parsed, a parse failure is caught
GraderResponded ==
    /\ pc = "await_grader" /\ call.status = "resolved"
    /\ graderTimeMs' = graderTimeMs + GraderCallMs
    /\ graderTokens' = addTokenUsage(graderTokens, call.value.usage)
    /\ rubricResults' = Push(rubricResults,
                             ResultOfReply(Example.rubrics[j + 1], call.value.content))
    /\ graderFailures' = graderFailures \cup
           { [i |-> i, j |-> j, error |-> p.error] :
               p \in { q \in {ParsedReply[call.value.content]} : q.thrown } }
    /\ j' = j + 1
    /\ call' = NoCall
    /\ pc' = "loop_j"
    /\ UNCHANGED <<examples, i, modelResult, modelTokens, modelTimeMs, errorCount,
                   lastError, completedExamples, themeScores, state, failedExamples,
                   modelCalls, rejection>>
    /\ UNCHANGED <<graderCalls, outstanding>>
    /\ graderOutcomes' = Append(graderOutcomes, [ok |-> TRUE, reply |-> call.value.content, error |-> NoError])
    /\ unchangedGrade /\ unchangedScorer /\ unchangedApp

\* fault: the catch block goes back to the same rubric item for another attempt
GraderFailed_Retries ==
    /\ pc = "await_grader" /\ call.status = "rejected"
    /\ graderFailures' = graderFailures \cup {[i |-> i, j |-> j, error |-> call.error]}
    /\ call' = NoCall
    /\ pc' = "loop_j"
    /\ UNCHANGED <<examples, i, j, modelResult, rubricResults, modelTokens, graderTokens,
                   modelTimeMs, graderTimeMs, errorCount, lastError, completedExamples,
                   themeScores, state, failedExamples, modelCalls, rejection>>
    /\ UNCHANGED <<graderCalls, outstanding, graderOutcomes>>
    /\ unchangedGrade /\ unchangedScorer /\ unchangedApp

\* lines 384-392: the grader call failed; the inner catch block
GraderFailed ==
    /\ pc = "await_grader" /\ call.status = "rejected"
    /\ rubricResults' = Push(rubricResults, DefaultResult(Example.rubrics[j + 1], call.error))
    /\ graderFailures' = graderFailures \cup {[i |-> i, j |-> j, error |-> call.error]}
    /\ j' = j + 1
    /\ call' = NoCall
    /\ pc' = "loop_j"
    /\ UNCHANGED <<examples, i, modelResult, modelTokens, graderTokens, modelTimeMs,
                   graderTimeMs, errorCount, lastError, completedExamples, themeScores,
                   state, failedExamples, modelCalls, rejection>>
    /\ UNCHANGED <<graderCalls, outstanding>>
    /\ graderOutcomes' = Append(graderOutcomes, [ok |-> FALSE, reply |-> <<>>, error |-> call.error])
    /\ unchangedGrade /\ unchangedScorer /\ unchangedApp

\* lines 395-420: all rubrics graded; score, record, roll up, publish
ExampleScored ==
    /\ pc = "loop_j" /\ j >= Len(Example.rubrics)
    /\ LET exampleResult == ScoredResult(Example, modelResult.content, rubricResults) IN
         /\ completedExamples' = Push(completedExamples, exampleResult)
         /\ themeScores' = updateThemeScores(themeScores, getTheme(Example),
                                             exampleResult.score)
    /\ state' = CompletedUpdate(state, completedExamples', modelTokens, graderTokens,
                                themeScores')
    /\ i' = i + 1
    /\ pc' = "loop_i"
    /\ UNCHANGED <<examples, j, call, modelResult, rubricResults, modelTokens, graderTokens,
                   modelTimeMs, graderTimeMs, errorCount, lastError, failedExamples,
                   modelCalls, graderFailures, rejection>>
    /\ UNCHANGED <<graderCalls, outstanding, graderOutcomes>>
    /\ unchangedGrade /\ unchangedScorer /\ unchangedApp

\* lines 453-479: the loop is exhausted; the final state is published and returned
Finish ==
    /\ pc = "loop_i" /\ i >= Len(examples)
    /\ state' = FinalState(examples, completedExamples, modelTokens, graderTokens,
                           modelTimeMs, graderTimeMs, themeScores, lastError, errorCount)
    /\ pc' = "done"
    /\ UNCHANGED <<examples, i, j, call, modelResult, rubricResults, modelTokens,
                   graderTokens, modelTimeMs, graderTimeMs, errorCount, lastError,
                   completedExamples, themeScores, failedExamples, modelCalls,
                   graderFailures, rejection>>
    /\ UNCHANGED <<graderCalls, outstanding, graderOutcomes>>
    /\ unchangedGrade /\ unchangedScorer /\ unchangedApp

----------------------------------------------------------------------------
(* App.tsx: the effect that writes the results once the phase is complete *)

\* the pricing map fetched before the run: the model is priced, the grader is not
Pricing ==
    [k \in {"model"} |-> [prompt |-> 2, completion |-> 3]]

\* calculateCost(usage, model, pricing)
calculateCost(usage, model, pricing) ==
    IF model \notin DOMAIN pricing THEN 0
    ELSE usage.promptTokens * pricing[model].prompt
             + usage.completionTokens * pricing[model].completion

\* no results file exists
NoFile == [written |-> FALSE]

\* a member of the results object: the expression its value is read from, and the value
Entry(from, value) == [from |-> from, value |-> value]

\* const results = { ... } of the effect, built from the state it was rendered with
ResultsDocument(s) ==
    LET overall == calculateOverallScore(s.completedExamples)
        modelCost == calculateCost(s.modelTokens, "model", Pricing)
        graderCost == calculateCost(s.graderTokens, "grader", Pricing)
    IN  [model |-> Entry("args.model", "model"),
         grader |-> Entry("args.grader", "grader"),
         dataset |-> Entry("args.dataset", "dataset"),
         timestamp |-> Entry("new Date().toISOString()", "now"),
         examples_evaluated |-> Entry("state.completedExamples.length",
                                      Len(s.completedExamples)),
         overall_score |-> Entry("overallScore", overall.overallScore),
         std_dev |-> Entry("stdDev", overall.stdDev),
         model_tokens |-> Entry("state.modelTokens", s.modelTokens),
         grader_tokens |-> Entry("state.graderTokens", s.graderTokens),
         model_cost |-> Entry("modelCost", modelCost),
         grader_cost |-> Entry("graderCost", graderCost),
         total_cost |-> Entry("modelCost + graderCost", modelCost + graderCost),
         model_time_ms |-> Entry("state.modelTimeMs", s.modelTimeMs),
         grader_time_ms |-> Entry("state.graderTimeMs", s.graderTimeMs),
         total_time_ms |-> Entry("Date.now() - state.startTime.getTime()", "elapsed"),
         example_results |->
             Entry("state.completedExamples",
                   [k \in 1..Len(s.completedExamples) |->
                       LET ex == s.completedExamples[k] IN
                       [prompt_id |-> ex.prompt_id, model_response |-> ex.model_response,
                        rubric_results |-> ex.rubric_results,
                        achieved_points |-> ex.achieved_points,
                        total_points |-> ex.total_points, score |-> ex.score]])]

\* fault: the effect does not consult the ref, so each run of it writes again
WriteResults_NoRef ==
    /\ state.phase = "complete" /\ writeResultsCalls < 2
    /\ resultsWritten' = TRUE
    /\ writeResultsCalls' = writeResultsCalls + 1
    /\ \/ resultsFile' = NoFile
       \/ resultsFile' = [written |-> TRUE, document |-> ResultsDocument(state)]
    /\ UNCHANGED runVars /\ unchangedGrade /\ unchangedScorer

\* the effect runs with phase complete and the ref unset: the ref is set, and
\* mkdir or writeFile fails, which is logged, or both succeed with the document
WriteResults ==
    /\ state.phase = "complete" /\ ~resultsWritten
    /\ resultsWritten' = TRUE
    /\ writeResultsCalls' = writeResultsCalls + 1
    /\ \/ resultsFile' = NoFile
       \/ resultsFile' = [written |-> TRUE, document |-> ResultsDocument(state)]
    /\ UNCHANGED runVars /\ unchangedGrade /\ unchangedScorer

RunInit ==
    /\ pc = "start"
    /\ examples = <<>>
    /\ i = 0 /\ j = 0
    /\ call = NoCall
    /\ modelResult = [content |-> "", usage |-> createEmptyTokenUsage]
    /\ rubricResults = <<>>
    /\ modelTokens = createEmptyTokenUsage /\ graderTokens = createEmptyTokenUsage
    /\ modelTimeMs = 0 /\ graderTimeMs = 0
    /\ errorCount = 0 /\ lastError = Null
    /\ completedExamples = <<>>
    /\ themeScores = EmptyMap
    /\ state = createInitialState
    /\ failedExamples = {}
    /\ modelCalls = 0
    /\ graderFailures = {}
    /\ rejection = NoError
    /\ graderCalls = <<>>
    /\ outstanding = {}
    /\ graderOutcomes = <<>>

GradeIdle ==
    /\ gpc = "idle"
    /\ rubrics = <<>> /\ concurrency = 0 /\ gi = 0
    /\ batch = <<>> /\ inflight = {} /\ values = <<>> /\ results = <<>> /\ issued = {}
    /\ outcomes = <<>>

\* no function of the scorer is called
NoReturn == [returned |-> FALSE]
ScorerIdle ==
    /\ fn = "none" /\ arg = <<>> /\ ret = NoReturn
    /\ themeMap = EmptyMap /\ passed = <<>>

\* the App is mounted: nothing is written
AppInit == resultsWritten = FALSE /\ resultsFile = NoFile /\ writeResultsCalls = 0

Init == RunInit /\ GradeIdle /\ ScorerIdle /\ AppInit

Next ==
    \/ BeginRun
    \/ LoadSettles
    \/ DatasetLoaded
    \/ DatasetFailed
    \/ ExampleBegin
    \/ ModelSettles
    \/ ModelResponded
    \/ CatchExample
    \/ RubricBegin
    \/ GraderSettles
    \/ GraderResponded
    \/ GraderFailed
    \/ ExampleScored
    \/ Finish
    \/ WriteResults

Spec == Init /\ [][Next]_vars

\* every pending call settles and every continuation runs
FairSpec == Spec /\ WF_vars(Next)


----------------------------------------------------------------------------
(* Claims about runEvaluation, checked under Spec (C3 under FairSpec) *)

PhaseRank(phase) ==
    CASE phase = "loading" -> 0
      [] phase = "running" -> 1
      [] OTHER -> 2

\* no operation of runEvaluation can run any more
Stopped == ~ENABLED Next

\* C1 (as amended): if the model call of the first example (index 0) fails,
\* runEvaluation rejects with that failure and stops: no ExampleResult, not even a
\* placeholder, is recorded or published in a snapshot, no later example is
\* requested, and the phase is not complete.
C1_FirstGenerationFailureIsFatal ==
    0 \in failedExamples =>
        /\ pc = "thrown"
        /\ rejection \in ApiErrors
        /\ rejection.message = lastError
        /\ completedExamples = <<>>
        /\ state.completedExamples = <<>>
        /\ modelCalls = 1
        /\ state.currentExample = 1
        /\ state.phase = "running"
        /\ Stopped

C1_Witness == 0 \in failedExamples /\ pc = "thrown"

\* C1 (as claimed): a failure of the response generation or of the grading of the
\* first example is propagated to the caller and ends the run with no ExampleResult.
C1_AnyFirstFailureIsFatal ==
    (0 \in failedExamples \/ \E f \in graderFailures : f.i = 0) =>
        /\ pc = "thrown"
        /\ completedExamples = <<>>
        /\ state.phase # "complete"

\* C2: when an example other than the first fails, the catch block appends the
\* placeholder ExampleResult (empty response, no rubric results, 0 of 1 points,
\* score 0), adds exactly one to errorCount, sets lastError to the failure's
\* message, publishes them, and goes on to the next example.
C2_LaterFailureRecordsPlaceholder ==
    [][ (pc = "await_model" /\ call.status = "rejected" /\ i > 0) =>
          /\ completedExamples' =
                 Append(completedExamples,
                        [prompt_id |-> examples[i + 1].prompt_id,
                         model_response |-> "", rubric_results |-> <<>>,
                         achieved_points |-> 0, total_points |-> 1,
                         score |-> FracZero])
          /\ errorCount' = errorCount + 1
          /\ lastError' = call.error.message
          /\ state'.completedExamples = completedExamples'
          /\ state'.errorCount = errorCount'
          /\ state'.lastError = lastError'
          /\ i' = i + 1
          /\ pc' = "loop_i"
          /\ rejection' = NoError ]_vars

\* the catch block has just recorded the failure of the third example
C2_Witness ==
    /\ pc = "loop_i" /\ i = 3
    /\ failedExamples = {2}
    /\ state.errorCount = 1
    /\ state.lastError = "Unknown API error"
    /\ Len(state.completedExamples) = 3

\* C3: once the dataset is loaded and the first example (if any) is past without
\* failing, the run eventually returns with phase complete published.
C3_RunCompletes ==
    (state.phase = "running" /\ rejection = NoError /\ (i >= 1 \/ Len(examples) = 0))
        ~> (pc = "done" /\ state.phase = "complete")

C3_Witness ==
    /\ pc = "done" /\ state.phase = "complete"
    /\ Cardinality(failedExamples) >= 2
    /\ graderFailures # {}

\* C4: the first snapshot has phase loading, and no update of the state sink
\* moves the phase backwards along loading, running, complete.
C4_PhaseMonotonic ==
    /\ state.phase = "loading"
    /\ [][PhaseRank(state.phase) <= PhaseRank(state'.phase)]_vars

C4_Witness == state.phase = "complete" /\ Len(state.completedExamples) >= 2

\* C5: in every snapshot and in the loop's own list, the k-th result has the
\* prompt_id of the k-th loaded example, and a complete snapshot has one result
\* for every loaded example.
C5_ResultsInDatasetOrder ==
    /\ Len(completedExamples) <= Len(examples)
    /\ \A k \in 1..Len(completedExamples) :
           completedExamples[k].prompt_id = examples[k].prompt_id
    /\ Len(state.completedExamples) <= Len(examples)
    /\ \A k \in 1..Len(state.completedExamples) :
           state.completedExamples[k].prompt_id = examples[k].prompt_id
    /\ state.phase = "complete" => Len(state.completedExamples) = Len(examples)
    /\ pc = "done" => Len(completedExamples) = Len(examples)

\* a shuffled sample, with a placeholder before a scored result
C5_Witness ==
    /\ Len(state.completedExamples) = 2
    /\ examples[1].prompt_id = "p4" /\ examples[2].prompt_id = "p1"
    /\ 1 \in failedExamples
    /\ state.phase = "complete"

FiveExamplesThirdFails ==
    pc = "done" /\ Len(examples) = 5 /\ failedExamples = {2}

\* C6 (as amended): in a run over five examples in which only the third fails,
\* exactly five ExampleResults exist at completion, the third of them is the
\* placeholder with score 0 and total_points 1, and errorCount is 1.
C6_FiveResultsThirdPlaceholder ==
    FiveExamplesThirdFails =>
        /\ Len(completedExamples) = 5
        /\ Len(state.completedExamples) = 5
        /\ state.completedExamples[3].score = FracZero
        /\ state.completedExamples[3].total_points = 1
        /\ state.completedExamples[3].rubric_results = <<>>
        /\ errorCount = 1
        /\ state.errorCount = 1

C6_Witness == FiveExamplesThirdFails /\ state.phase = "complete"

\* C6 (as claimed): ... exactly four ExampleResults exist at completion.
C6_FourResults ==
    FiveExamplesThirdFails =>
        /\ Len(state.completedExamples) = 4
        /\ state.completedExamples[3].score = FracZero
        /\ state.completedExamples[3].total_points = 1
        /\ state.errorCount = 1

\* the RubricResult that item j of example i has now, if it has one
ResultOf(i_, j_) ==
    IF i_ < Len(completedExamples)
    THEN completedExamples[i_ + 1].rubric_results
    ELSE rubricResults

\* C7: a grader call that fails, or whose reply does not parse, yields for its
\* rubric item a RubricResult with criteria_met false, the item's criterion and
\* points and an explanation naming the failure; the failure does not reach the
\* example's catch block, so the example is scored from all its rubric results
\* and is neither a placeholder nor the end of the run.
C7_GradingFailureIsNotMet ==
    \A f \in graderFailures :
        LET rubric == examples[f.i + 1].rubrics[f.j + 1]
            rs == ResultOf(f.i, f.j)
        IN  /\ f.i \notin failedExamples
            /\ pc # "thrown" /\ rejection = NoError
            /\ Len(rs) > f.j
            /\ rs[f.j + 1] =
                   [criterion |-> rubric.criterion, points |-> rubric.points,
                    criteria_met |-> "false",
                    explanation |-> "Grading error: " \o f.error.name \o ": "
                                        \o f.error.message]
            /\ f.i < Len(completedExamples) =>
                   LET er == completedExamples[f.i + 1] IN
                   /\ Len(er.rubric_results) = Len(examples[f.i + 1].rubrics)
                   /\ er.model_response = "answer"
                   /\ er.total_points = calculateExampleScore(er.rubric_results).totalPoints
                   /\ er.score = calculateExampleScore(er.rubric_results).score

\* the first example has a failed grader call and an unparsable reply, and is scored
C7_Witness ==
    /\ \E f, g \in graderFailures :
           /\ f.i = 0 /\ g.i = 0
           /\ f.error.name = "Error" /\ g.error.name = "SyntaxError"
    /\ Len(completedExamples) >= 1
    /\ pc = "done"

\* C21: at most one grader call is issued for each (example, rubric item) pair,
\* a failed or unparsable attempt included, and a scored example has exactly one
\* RubricResult per rubric item, in the order of the items.
C21_OneGraderCallPerItem ==
    /\ \A pair \in DOMAIN graderCalls : graderCalls[pair] = 1
    /\ \A f \in graderFailures : <<f.i, f.j>> \in DOMAIN graderCalls
    /\ pc \in {"loop_j", "await_grader"} => Len(rubricResults) = j
    /\ \A n \in 1..Len(completedExamples) :
           completedExamples[n].model_response # "" =>
               LET rs == completedExamples[n].rubric_results
                   items == examples[n].rubrics
               IN  /\ Len(rs) = Len(items)
                   /\ \A k \in 1..Len(rs) : rs[k].criterion = items[k].criterion
                   /\ \A k \in 1..Len(items) : <<n - 1, k - 1>> \in DOMAIN graderCalls

\* the grader call of the first example's first item failed and that of its
\* second item had an unparsable reply; the example was scored with two results
\* after two grader calls
C21_Witness ==
    /\ Len(completedExamples) >= 1
    /\ Len(completedExamples[1].rubric_results) = 2
    /\ \E f, g \in graderFailures :
           /\ f.i = 0 /\ f.j = 0 /\ f.error.name = "Error"
           /\ g.i = 0 /\ g.j = 1 /\ g.error.name = "SyntaxError"
    /\ { pair \in DOMAIN graderCalls : pair[1] = 0 } = {<<0, 0>>, <<0, 1>>}

\* C24: examples are processed one after another: every outstanding call
\* belongs to the example the loop is at, all examples before it are finished,
\* and at most one generation call (indeed at most one call) is outstanding.
C24_OneExampleAtATime ==
    /\ \A c \in outstanding : c.i = i /\ Len(completedExamples) = i
    /\ \A a, b \in outstanding : a.i = b.i
    /\ Cardinality({ c \in outstanding : c.kind = "model" }) <= 1
    /\ Cardinality(outstanding) <= 1

\* the first example is finished and the grader call of the second example's
\* second rubric item is the one outstanding call
C24_Witness ==
    /\ outstanding = {CallOf("grader", 1, 1)}
    /\ Len(completedExamples) = 1 /\ completedExamples[1].model_response # ""

IsPrefix(s1, s2) == Len(s1) <= Len(s2) /\ SubSeq(s2, 1, Len(s1)) = s1

\* C25: completedExamples is append-only across snapshots: the list of a
\* snapshot is a prefix of the list of the next one, each earlier ExampleResult
\* unchanged in all its fields (and so of every later one).
C25_CompletedAppendOnly ==
    [][IsPrefix(state.completedExamples, state'.completedExamples)]_vars

\* the snapshot after the second of two results was appended: a scored example,
\* then the placeholder of a failed one
C25_Witness ==
    /\ Len(state.completedExamples) = 2
    /\ state.completedExamples[1].model_response = "answer"
    /\ state.completedExamples[2] = FailedResult(examples[2])
    /\ state.phase = "running"

\* the members of the written document whose value is read from expression e
MembersFrom(e) ==
    { k \in DOMAIN resultsFile.document : resultsFile.document[k].from = e }

\* the placeholder results (failed examples) among a list of ExampleResults
Placeholders(exs) ==
    { k \in 1..Len(exs) :
        exs[k].rubric_results = <<>> /\ exs[k].total_points = 1 /\ exs[k].score = FracZero }

\* C20 as stated: a written results document carries the run's error count and
\* its last-error message.
C20_DocumentCarriesErrors ==
    resultsFile.written =>
        /\ MembersFrom("state.errorCount") # {}
        /\ MembersFrom("state.lastError") # {}

\* C20, amended: when the results are written, it is the final snapshot that
\* carries the error count (one per failed example) and the last-error message
\* (null only without failures); the document has no member for either and
\* shows each failed example as a placeholder result.
C20_SnapshotCarriesErrors ==
    resultsFile.written =>
        /\ state.errorCount = Cardinality(failedExamples)
        /\ state.lastError = lastError
        /\ (state.errorCount = 0) <=> (state.lastError = Null)
        /\ MembersFrom("state.errorCount") = {} /\ MembersFrom("state.lastError") = {}
        /\ Cardinality(Placeholders(resultsFile.document.example_results.value))
               = state.errorCount

\* the results of a run in which a later example failed were written
C20_Witness ==
    /\ resultsFile.written
    /\ state.errorCount = 1 /\ state.lastError = "Unknown API error"
    /\ resultsFile.document.examples_evaluated.value >= 2

\* C26: in every snapshot errorCount is the number of placeholder results in
\* completedExamples and lastError is null exactly when errorCount is 0; from
\* one snapshot to the next errorCount never decreases.
C26_ErrorCountMatchesPlaceholders ==
    /\ [](/\ state.errorCount = Cardinality(Placeholders(state.completedExamples))
          /\ (state.lastError = Null) <=> (state.errorCount = 0))
    /\ [][state'.errorCount >= state.errorCount]_vars

\* the snapshot emitted for a failed example that followed a scored one
C26_Witness ==
    /\ state.phase = "running" /\ state.errorCount = 1
    /\ state.lastError = "Unknown API error"
    /\ Placeholders(state.completedExamples) = {2}

\* C27: results are persisted at most once per run and only once a snapshot
\* with phase complete was observed; when runEvaluation fails (the dataset does
\* not load, or the first example fails) no result file is ever written.
C27_PersistedOnceWhenComplete ==
    /\ writeResultsCalls <= 1
    /\ writeResultsCalls = 1 <=> resultsWritten
    /\ resultsFile.written => writeResultsCalls = 1
    /\ writeResultsCalls = 1 => state.phase = "complete"
    /\ rejection # NoError => writeResultsCalls = 0 /\ ~resultsFile.written

\* the results of a completed run were written, by the one call of writeResults
C27_Witness ==
    /\ resultsFile.written /\ writeResultsCalls = 1 /\ resultsWritten
    /\ state.phase = "complete" /\ pc = "done"

\* the example has a tag that getTheme's find recognises
CarriesThemeTag(example) ==
    \E k \in 1..Len(example.example_tags) : example.example_tags[k][1] = "theme:"

\* the successfully scored examples of a snapshot that carry a theme tag
ScoredWithThemeTag(snapshot) ==
    { n \in 1..Len(snapshot.completedExamples) :
        /\ n \notin Placeholders(snapshot.completedExamples)
        /\ CarriesThemeTag(examples[n]) }

RECURSIVE SumExamples(_, _)
\* the sum of ThemeScore.examples over the themes ts of the map m
SumExamples(m, ts) ==
    IF ts = {} THEN 0
    ELSE LET t == CHOOSE x \in ts : TRUE
         IN  m[t].examples + SumExamples(m, ts \ {t})

\* C30: in every snapshot the sum over all themes of ThemeScore.examples is the
\* number of successfully scored examples so far that carry a theme tag;
\* placeholder results of failed examples are in completedExamples with score 0
\* and in no theme rollup.
C30_ThemeCountsScoredExamples ==
    /\ SumExamples(ThemeScoresOf(state), state.themeScores)
           = Cardinality(ScoredWithThemeTag(state))
    /\ \A n \in Placeholders(state.completedExamples) :
           state.completedExamples[n].score = FracZero

\* the number of calls a token total accounts for (each call reports CallUsage)
CallsIn(usage) == usage.totalTokens \div CallUsage.totalTokens

\* the scored (not failed) results of a snapshot whose example has theme t
ScoredWithTheme(snapshot, t) ==
    { n \in 1..Len(snapshot.completedExamples) :
        /\ snapshot.completedExamples[n].model_response # ""
        /\ getTheme(examples[n]) = t }

\* C12: in every snapshot the aggregates account for the same calls: the model
\* time is that of the calls counted in modelTokens, the grader time that of the
\* calls counted in graderTokens, and every theme's rollup counts the scored
\* examples of that theme in completedExamples.
C12_SnapshotAggregatesAgree ==
    /\ state.modelTimeMs = CallsIn(state.modelTokens) * ModelCallMs
    /\ state.graderTimeMs = CallsIn(state.graderTokens) * GraderCallMs
    /\ \A t \in state.themeScores :
           ThemeScoresOf(state)[t].examples = Cardinality(ScoredWithTheme(state, t))

\* the ThemeScore values reachable from a snapshot when the loop's ThemeScore
\* objects hold the values heap
ReachableThemes(snapshot, heap) == [t \in snapshot.themeScores |-> heap[t]]

\* C13: no step of the loop changes a value reachable from the snapshot the
\* state sink holds: the ThemeScore entries of its themeScores map read the
\* same after the step as before it.
C13_SnapshotImmutable ==
    [][ReachableThemes(state, themeScores') = ReachableThemes(state, themeScores)]_vars

----------------------------------------------------------------------------
(* grader.ts: gradeRubricItem and gradeExample *)

\* concurrency: number = 5
DefaultConcurrency == 5

\* the rubric items handed to gradeExample
GradeRubric(k) ==
    CASE k = 1 -> Rubric("g1", 4)
      [] k = 2 -> Rubric("g2", -3)
      [] k = 3 -> Rubric("g3", 2)
      [] k = 4 -> Rubric("g4", 1)
      [] k = 5 -> Rubric("g5", -1)
      [] OTHER -> Rubric("g6", 6)

\* fault: the slice has no end
Slice_ToEnd(arr, from, to) == SubSeq(arr, from + 1, Len(arr))

\* arr.slice(from, to) for 0 <= from <= to, indices 0-based
Slice(arr, from, to) ==
    SubSeq(arr, from + 1, IF to < Len(arr) THEN to ELSE Len(arr))

\* what the grader call of one item ends with: a reply, or a failure of chat
GraderOutcomes ==
    { [ok |-> TRUE, reply |-> r, error |-> NoError] : r \in GraderReplies }
    \cup { [ok |-> FALSE, reply |-> <<>>, error |-> e] : e \in GraderErrors }

\* gradeRubricItem after its await: the try block, or the catch block
gradeRubricItem(rubric, outcome) ==
    IF outcome.ok THEN ResultOfReply(rubric, outcome.reply)
    ELSE DefaultResult(rubric, outcome.error)

\* fault: a failing call cancels the other calls of its batch
Outstanding_FailureCancels(inflight_, idx, outcome) ==
    IF outcome.ok THEN inflight_ \ {idx} ELSE {}

\* the calls that are outstanding once the call of item idx has ended: each
\* promise of batch.map(...) is its own call, and a failure is caught inside
\* gradeRubricItem, so the promise is fulfilled and nothing reaches the others
Outstanding(inflight_, idx, outcome) == inflight_ \ {idx}

\* fault: the batch is not awaited
AllSettled_NoAwait(inflight_) == TRUE

\* Promise.all resolves once every promise of the batch is fulfilled
AllSettled(inflight_) == inflight_ = {}

\* fault: values are kept in the order in which the calls complete
Store_Push(values_, pos, v) ==
    [k \in DOMAIN values_ \cup {Cardinality(DOMAIN values_) + 1} |->
        IF k \in DOMAIN values_ THEN values_[k] ELSE v]

\* Promise.all keeps the value of the promise at position pos of the batch at
\* position pos of its result array, whenever that promise is fulfilled
Store(values_, pos, v) ==
    [k \in DOMAIN values_ \cup {pos} |-> IF k = pos THEN v ELSE values_[k]]

NoResult ==
    [criterion |-> Undefined, points |-> 0, criteria_met |-> Undefined,
     explanation |-> Undefined]

\* ...batchResults: the n elements of the array
Spread(values_, n) ==
    [k \in 1..n |-> IF k \in DOMAIN values_ THEN values_[k] ELSE NoResult]

\* the for statement's test and the slice of the batch; what follows the batch, up
\* to the await of Promise.all, issues one grader call per item of the batch
GradeBatch ==
    /\ gpc = "loop" /\ gi < Len(rubrics)
    /\ batch' = Slice(rubrics, gi, gi + concurrency)
    /\ inflight' = inflight \cup { gi + k - 1 : k \in 1..Len(batch') }
    /\ issued' = issued \cup { gi + k - 1 : k \in 1..Len(batch') }
    /\ values' = <<>>
    /\ gpc' = "await_all"
    /\ UNCHANGED <<rubrics, concurrency, gi, results, outcomes>>
    /\ UNCHANGED runVars /\ unchangedScorer /\ unchangedApp

\* the grader call of the outstanding item idx ends with outcome;
\* gradeRubricItem returns and the promise of the item is fulfilled
GraderCallEnds(idx, outcome) ==
    /\ inflight' = Outstanding(inflight, idx, outcome)
    /\ values' = Store(values, idx - gi + 1,
                       gradeRubricItem(rubrics[idx + 1], outcome))
    /\ outcomes' = Store(outcomes, idx, outcome)
    /\ UNCHANGED <<gpc, rubrics, concurrency, gi, batch, results, issued>>
    /\ UNCHANGED runVars /\ unchangedScorer /\ unchangedApp

\* the grader call of one outstanding item completes; gradeRubricItem returns
GraderCallDone ==
    /\ gpc = "await_all"
    /\ \E idx \in inflight : \E outcome \in GraderOutcomes : GraderCallEnds(idx, outcome)

\* Promise.all resolved: results.push(...batchResults), i += concurrency
BatchDone ==
    /\ gpc = "await_all" /\ AllSettled(inflight)
    /\ results' = results \o Spread(values, Len(batch))
    /\ gi' = gi + concurrency
    /\ gpc' = "loop"
    /\ UNCHANGED <<rubrics, concurrency, batch, inflight, values, issued, outcomes>>
    /\ UNCHANGED runVars /\ unchangedScorer /\ unchangedApp

\* the loop is exhausted: return results
GradeReturn ==
    /\ gpc = "loop" /\ gi >= Len(rubrics)
    /\ gpc' = "done"
    /\ UNCHANGED <<rubrics, concurrency, gi, batch, inflight, values, results, issued,
                   outcomes>>
    /\ UNCHANGED runVars /\ unchangedScorer /\ unchangedApp

\* a call gradeExample(client, graderModel, conversation, modelResponse, rubrics,
\* concurrency) with a limit of at least 1, or with the default limit
GradeInit ==
    /\ gpc = "loop"
    /\ \E n \in 0..MaxGradeRubrics : rubrics = [k \in 1..n |-> GradeRubric(k)]
    /\ \/ concurrency \in 1..MaxConcurrency
       \/ concurrency = DefaultConcurrency
    /\ gi = 0
    /\ batch = <<>> /\ inflight = {} /\ values = <<>> /\ results = <<>> /\ issued = {}
    /\ outcomes = <<>>

GradeNext ==
    \/ GradeBatch
    \/ GraderCallDone
    \/ BatchDone
    \/ GradeReturn

InitGrade == RunInit /\ GradeInit /\ ScorerIdle /\ AppInit

SpecGrade == InitGrade /\ [][GradeNext]_vars

----------------------------------------------------------------------------
(* The grading loop of runEvaluation and gradeExample on the same rubric items,
   the same model response and the same grader outcomes *)

\* gradeExample is called, with a limit of at least 1 or with the default limit,
\* on the rubric items of the example whose grading loop has just ended
CallGradeExample ==
    /\ pc = "loop_j" /\ j >= Len(Example.rubrics) /\ gpc = "idle"
    /\ rubrics' = Example.rubrics
    /\ \/ concurrency' \in 1..MaxConcurrency
       \/ concurrency' = DefaultConcurrency
    /\ gi' = 0
    /\ batch' = <<>> /\ inflight' = {} /\ values' = <<>> /\ results' = <<>>
    /\ issued' = {} /\ outcomes' = <<>>
    /\ gpc' = "loop"
    /\ UNCHANGED runVars /\ unchangedScorer /\ unchangedApp

\* the grader call of one outstanding item ends as the call of the same item
\* ended in the loop of runEvaluation
GraderCallReplayed ==
    /\ gpc = "await_all"
    /\ \E idx \in inflight : GraderCallEnds(idx, graderOutcomes[idx + 1])

\* the caller is done with the returned array; the locals of the call are gone
GradeDiscarded ==
    /\ gpc = "done"
    /\ gpc' = "idle"
    /\ rubrics' = <<>> /\ concurrency' = 0 /\ gi' = 0
    /\ batch' = <<>> /\ inflight' = {} /\ values' = <<>> /\ results' = <<>>
    /\ issued' = {} /\ outcomes' = <<>>
    /\ UNCHANGED runVars /\ unchangedScorer /\ unchangedApp

\* runEvaluation goes on when no call of gradeExample is under way
RunStep == gpc = "idle" /\ Next

BothNext ==
    \/ RunStep
    \/ CallGradeExample
    \/ GradeBatch
    \/ GraderCallReplayed
    \/ BatchDone
    \/ GradeReturn
    \/ GradeDiscarded

InitBoth == RunInit /\ GradeIdle /\ ScorerIdle /\ AppInit

SpecBoth == InitBoth /\ [][BothNext]_vars

\* C28: given the same grader reply (or failure) for each rubric item, the
\* one-call-at-a-time loop of runEvaluation and gradeExample with any limit of
\* at least 1 produce the same ordered RubricResults: the same criterion, points
\* and criteria_met at every index, and as many results.
C28_SameRubricResults ==
    gpc # "idle" =>
        /\ Len(results) <= Len(rubricResults)
        /\ \A n \in 1..Len(results) :
               /\ results[n].criterion = rubricResults[n].criterion
               /\ results[n].points = rubricResults[n].points
               /\ results[n].criteria_met = rubricResults[n].criteria_met
        /\ gpc = "done" => Len(results) = Len(rubricResults)

\* gradeExample has returned the two results of an example whose first item was
\* met and whose second grader call failed, both calls having been in one batch
C28_Witness ==
    /\ gpc = "done" /\ concurrency = 2 /\ Len(results) = 2
    /\ results = rubricResults
    /\ results[1].criteria_met = "true"
    /\ ~graderOutcomes[2].ok

----------------------------------------------------------------------------
(* Claims about gradeExample, checked under SpecGrade *)

\* the chunk of the rubric item with (0-based) index idx
ChunkOf(idx) == idx \div concurrency

\* C8: the results of gradeExample are in rubric order: the n-th result carries
\* the criterion and the points of the n-th rubric item, whatever the order in
\* which the grader calls of a chunk completed.
C8_ResultsInRubricOrder ==
    /\ Len(results) <= Len(rubrics)
    /\ \A n \in 1..Len(results) :
           /\ results[n].criterion = rubrics[n].criterion
           /\ results[n].points = rubrics[n].points
    /\ gpc = "done" => Len(results) = Len(rubrics)

\* in the second chunk the call of the last item has returned while the calls of
\* the two items before it are outstanding
C8_Witness ==
    /\ concurrency = 3 /\ Len(results) = 3
    /\ inflight = {3, 4}
    /\ DOMAIN values = {3}

C10_ChunksInSequence ==
    \A a \in issued : \A b \in inflight : ChunkOf(a) <= ChunkOf(b)

\* the second chunk is outstanding, the first is done
C10_Witness ==
    /\ concurrency = 2 /\ inflight = {2, 3} /\ Len(results) = 2

\* C11: a failing grader call of one item leaves the other items alone: every
\* call issued and not yet ended is still outstanding (none is cancelled), every
\* value and every result is the one that item's own grader outcome determines,
\* and gradeExample returns a result for every item, those of later chunks too.
C11_FailureLeavesOthersAlone ==
    /\ inflight = issued \ DOMAIN outcomes
    /\ gpc = "await_all" => \A k \in DOMAIN values :
           /\ (gi + k - 1) \in DOMAIN outcomes
           /\ values[k] = gradeRubricItem(rubrics[gi + k], outcomes[gi + k - 1])
    /\ \A n \in 1..Len(results) :
           /\ (n - 1) \in DOMAIN outcomes
           /\ results[n] = gradeRubricItem(rubrics[n], outcomes[n - 1])
    /\ gpc = "done" => Len(results) = Len(rubrics)

\* the call of the first item failed while its two siblings were outstanding;
\* both were then graded as met, and so were the items of the second chunk
C11_Witness ==
    /\ gpc = "done" /\ concurrency = 3 /\ Len(rubrics) = 5
    /\ ~outcomes[0].ok
    /\ \A n \in 2..5 : outcomes[n - 1].ok /\ results[n].criteria_met = "true"
    /\ results[1].criteria_met = "false"

\* every outstanding grader call returns or fails, and every continuation runs
FairSpecGrade == SpecGrade /\ WF_vars(GradeNext)

\* C29: for every rubric list (the empty one too) and every limit of at least 1,
\* gradeExample returns, with exactly one result per rubric item, provided each
\* grader call eventually returns or fails.
C29_GradeExampleTerminates ==
    <>[](/\ gpc = "done" /\ inflight = {}
         /\ Len(results) = Len(rubrics)
         /\ \A n \in 1..Len(rubrics) : results[n].criterion = rubrics[n].criterion)

\* gradeExample has returned the results of four items graded in a full chunk
\* and a partial one
C29_Witness ==
    /\ gpc = "done" /\ concurrency = 3 /\ Len(rubrics) = 4 /\ Len(results) = 4
    /\ gi = 6 /\ DOMAIN outcomes = 0..3

----------------------------------------------------------------------------
(* Calls of the scorer's functions: calculateExampleScore, calculateOverallScore *)
(* and updateThemeScores, each on arguments drawn from the sets below          *)

\* the points of a rubric item, and the verdicts of a RubricResult (a boolean)
ScorePoints == {-10, 0, 3, 5}
Verdicts == {"true", "false"}

RubricResultsOf(n) ==
    { [k \in 1..n |-> [criterion |-> "c", points |-> f[k][1], criteria_met |-> f[k][2],
                        explanation |-> "x"]] :
        f \in [1..n -> ScorePoints \X Verdicts] }

\* the scores of the ExampleResults handed to calculateOverallScore
ExampleScores == {Frac(-10, 3), Frac(-2, 5), FracZero, Frac(1, 2), FracOne}

ExampleResultsOf(n) ==
    { [k \in 1..n |-> [prompt_id |-> "p", score |-> f[k]]] : f \in [1..n -> ExampleScores] }

\* the theme (null, the empty name of a bare "theme:" tag, or a name) and the
\* score handed to updateThemeScores
ThemeArgs == {Null, "", "hedging", "communication"}
ThemeCallScores == {Frac(-2, 5), FracZero, Frac(1, 2), FracOne}

Returned(v) == [returned |-> TRUE, value |-> v]

CallCalculateExampleScore ==
    /\ fn = "calculateExampleScore" /\ ~ret.returned
    /\ ret' = Returned(calculateExampleScore(arg))
    /\ UNCHANGED <<fn, arg, themeMap, passed>>
    /\ UNCHANGED runVars /\ unchangedGrade /\ unchangedApp

CallCalculateOverallScore ==
    /\ fn = "calculateOverallScore" /\ ~ret.returned
    /\ ret' = Returned(calculateOverallScore(arg))
    /\ UNCHANGED <<fn, arg, themeMap, passed>>
    /\ UNCHANGED runVars /\ unchangedGrade /\ unchangedApp

\* one more call updateThemeScores(themeScores, theme, score) on the same map
CallUpdateThemeScores ==
    /\ fn = "updateThemeScores" /\ Len(passed) < MaxThemeCalls
    /\ \E theme \in ThemeArgs : \E score \in ThemeCallScores :
         /\ arg' = <<theme, score>>
         /\ themeMap' = updateThemeScores(themeMap, theme, score)
         /\ passed' = Append(passed, [theme |-> theme, score |-> score])
    /\ ret' = Returned(Undefined)
    /\ UNCHANGED fn
    /\ UNCHANGED runVars /\ unchangedGrade /\ unchangedApp

ScorerInit ==
    /\ \/ fn = "calculateExampleScore"
          /\ \E n \in 0..MaxRubricResults : arg \in RubricResultsOf(n)
       \/ fn = "calculateOverallScore"
          /\ \E n \in 0..MaxExampleResults : arg \in ExampleResultsOf(n)
       \/ fn = "updateThemeScores" /\ arg = <<>>
    /\ ret = NoReturn
    /\ themeMap = EmptyMap /\ passed = <<>>

ScorerNext ==
    \/ CallCalculateExampleScore
    \/ CallCalculateOverallScore
    \/ CallUpdateThemeScores

InitScorer == RunInit /\ GradeIdle /\ ScorerInit /\ AppInit

SpecScorer == InitScorer /\ [][ScorerNext]_vars

----------------------------------------------------------------------------
(* Claims about the scorer, checked under SpecScorer *)

\* the sum of the points of the items of rs at the positions in S
RECURSIVE PointsAt(_, _)
PointsAt(rs, S) ==
    IF S = {} THEN 0
    ELSE LET k == CHOOSE x \in S : TRUE IN rs[k].points + PointsAt(rs, S \ {k})

ExampleScoreReturned == fn = "calculateExampleScore" /\ ret.returned

\* C14: achievedPoints is the sum of the points of exactly the results whose
\* criteria_met is true, negative points included.
C14_AchievedIsSumOfMet ==
    ExampleScoreReturned =>
        ret.value.achievedPoints =
            PointsAt(arg, { k \in 1..Len(arg) : arg[k].criteria_met = "true" })

\* a single met item of -10 points: achievedPoints is -10
C14_Witness ==
    /\ ExampleScoreReturned /\ Len(arg) = 1
    /\ arg[1].points = -10 /\ arg[1].criteria_met = "true"
    /\ ret.value.achievedPoints = -10

\* C15: totalPoints is the sum of the points of the results with points > 0,
\* whatever their criteria_met.
C15_TotalIsSumOfPositive ==
    ExampleScoreReturned =>
        ret.value.totalPoints = PointsAt(arg, { k \in 1..Len(arg) : arg[k].points > 0 })

\* a met item of -10 points beside an unmet item of 5 points: totalPoints is 5
C15_Witness ==
    /\ ExampleScoreReturned /\ Len(arg) = 2
    /\ arg[1].points = -10 /\ arg[1].criteria_met = "true"
    /\ arg[2].points = 5 /\ arg[2].criteria_met = "false"
    /\ ret.value.totalPoints = 5

\* C16: score is 0 when totalPoints is 0, whatever achievedPoints is, and
\* achievedPoints / totalPoints otherwise.
C16_ScoreZeroWithoutTotal ==
    ExampleScoreReturned =>
        IF ret.value.totalPoints = 0
        THEN ret.value.score = FracZero
        ELSE ret.value.score.n * ret.value.totalPoints
                 = ret.value.achievedPoints * ret.value.score.d

\* only non-positive items, one of them met: achievedPoints is -10, score is 0
C16_Witness ==
    /\ ExampleScoreReturned
    /\ ret.value.totalPoints = 0 /\ ret.value.achievedPoints = -10
    /\ ret.value.score = FracZero

OverallScoreReturned == fn = "calculateOverallScore" /\ ret.returned

\* the sum of the scores of the results of rs at the positions in S
RECURSIVE ScoresAt(_, _)
ScoresAt(rs, S) ==
    IF S = {} THEN FracZero
    ELSE LET k == CHOOSE x \in S : TRUE IN FracAdd(rs[k].score, ScoresAt(rs, S \ {k}))

\* C18: for the empty list overallScore and stdDev are 0; for a non-empty list
\* overallScore lies in [0,1] and is the mean of the scores where the mean lies
\* in [0,1], 0 where the mean is below 0 and 1 where it is above 1.
C18_OverallScoreIsClippedMean ==
    OverallScoreReturned =>
        LET out == ret.value
            total == ScoresAt(arg, 1..Len(arg))
            n == Len(arg)
        IN  IF n = 0
            THEN out.overallScore = FracZero /\ out.stdDev = Sqrt(FracZero)
            ELSE /\ FracLeq(FracZero, out.overallScore)
                 /\ FracLeq(out.overallScore, FracOne)
                 /\ total.n < 0 => out.overallScore = FracZero
                 /\ total.n > n * total.d => out.overallScore = FracOne
                 /\ (0 <= total.n /\ total.n <= n * total.d) =>
                        out.overallScore.n * total.d * n = total.n * out.overallScore.d

\* scores -2/5, 0 and -10/3: the mean is negative and overallScore is 0
C18_Witness ==
    /\ OverallScoreReturned /\ Len(arg) = 3
    /\ arg[1].score = Frac(-2, 5) /\ arg[2].score = FracZero /\ arg[3].score = Frac(-10, 3)
    /\ ret.value.overallScore = FracZero
    /\ ret.value.stdDev # Sqrt(FracZero)

\* the scores passed to updateThemeScores for theme t, in the order of the calls
PassedFor(t) ==
    LET hits == SelectSeq(passed, LAMBDA c : c.theme = t)
    IN  [k \in 1..Len(hits) |-> hits[k].score]

\* the entries of the map after the calls so far
ThemeEntriesConsistent ==
    \A t \in DOMAIN themeMap :
        LET e == themeMap[t] IN
        /\ e.examples >= 1
        /\ e.examples = Len(PassedFor(t))
        /\ e.totalScore = SumScores(PassedFor(t))
        /\ e.avgScore.n * e.totalScore.d * e.examples = e.totalScore.n * e.avgScore.d

\* what one call leaves alone
ThemeCallFrame ==
    passed' # passed =>
        LET theme == passed'[Len(passed')].theme IN
        /\ theme = Null => themeMap' = themeMap
        /\ \A t \in DOMAIN themeMap :
               t # theme => (t \in DOMAIN themeMap' /\ themeMap'[t] = themeMap[t])

\* C19: after any sequence of updateThemeScores calls every entry has
\* examples >= 1, totalScore the sum of the scores passed for its theme and
\* avgScore = totalScore / examples; a call with theme null leaves the map
\* unchanged and a call for one theme leaves the entries of the others unchanged.
C19_ThemeRollupConsistent == []ThemeEntriesConsistent /\ [][ThemeCallFrame]_vars

\* three calls: two for hedging (1/2 and 0), then one with no theme, which left
\* the entry at examples 2, totalScore 1/2, avgScore 1/4
C19_Witness ==
    /\ fn = "updateThemeScores" /\ Len(passed) = 3
    /\ passed[1] = [theme |-> "hedging", score |-> Frac(1, 2)]
    /\ passed[2] = [theme |-> "hedging", score |-> FracZero]
    /\ passed[3].theme = Null
    /\ themeMap["hedging"].examples = 2
    /\ themeMap["hedging"].avgScore = Frac(1, 4)

----------------------------------------------------------------------------
(* The parsing of one grader reply into a RubricResult (grader.ts 89-119,    *)
(* runner.ts 365-392), on each reply of ParseInputs                          *)

\* the rubric item being graded
ParseRubric == Rubric("c", 5)

\* the grader call returned the reply arg: the try block, or the catch block
CallParseGraderReply ==
    /\ fn = "gradeRubricItem" /\ ~ret.returned
    /\ ret' = Returned(ResultOfReply(ParseRubric, arg))
    /\ UNCHANGED <<fn, arg, themeMap, passed>>
    /\ UNCHANGED runVars /\ unchangedGrade /\ unchangedApp

ParseInit ==
    /\ fn = "gradeRubricItem" /\ arg \in ParseInputs
    /\ ret = NoReturn
    /\ themeMap = EmptyMap /\ passed = <<>>

ParseNext == CallParseGraderReply

InitParse == RunInit /\ GradeIdle /\ ParseInit /\ AppInit

SpecParse == InitParse /\ [][ParseNext]_vars

----------------------------------------------------------------------------
(* Claims about the parsing of grader replies, checked under SpecParse *)

ParseReturned == fn = "gradeRubricItem" /\ ret.returned

\* the reply's JSON text parses (JSON.parse does not throw)
ParsesAsJson(reply) == ParsedReply[reply].error.name # "SyntaxError"

\* C22: every RubricResult produced from a reply that parses as JSON has
\* criteria_met equal to the boolean true or the boolean false.
C22_CriteriaMetIsBoolean ==
    (ParseReturned /\ ParsesAsJson(arg)) => ret.value.criteria_met \in {"true", "false"}

\* the objects of ReplyObjects whose criteria_met members all read v
ObjectsWithVerdict(v) ==
    { o \in ReplyObjects :
        /\ \E k \in 1..Len(o) : o[k] \in CriteriaMetMembers
        /\ \A k \in 1..Len(o) : o[k] \in CriteriaMetMembers => MemberValue(o[k]) = v }

\* a fenced block, json-labelled or unlabelled, around an object with criteria_met true
FencedTrue ==
    { <<"fence", "json", "ws">> \o o \o <<"ws", "fence">> : o \in ObjectsWithVerdict("true") }
    \cup { <<"fence", "ws">> \o o \o <<"ws", "fence">> : o \in ObjectsWithVerdict("true") }

\* an object with verdict v followed by trailing text, prose with a closing brace included
WithTrailingProse(v) ==
    { o \o suf : o \in ObjectsWithVerdict(v), suf \in ReplySuffixes \ {<<>>} }

\* the replies that hold no JSON object
WithoutObject == { r \in ParseInputs : \A k \in 1..Len(r) : r[k] # "{" }

NonEmptyText(v) == v \notin {Undefined, Null, "", "\"\""}

\* C23: a fenced block around an object with criteria_met true yields true; an
\* object followed by trailing prose, also prose with a closing brace, yields
\* the object's verdict; a reply without a JSON object yields false with a
\* non-empty explanation.
C23_ReplyParsing ==
    ParseReturned =>
        /\ arg \in FencedTrue => ret.value.criteria_met = "true"
        /\ \A v \in {"true", "false"} :
               arg \in WithTrailingProse(v) => ret.value.criteria_met = v
        /\ arg \in WithoutObject =>
               (ret.value.criteria_met = "false" /\ NonEmptyText(ret.value.explanation))

====
